---- MODULE Spec2Model ----
(***************************************************************************)
(* Model of src/src/main.py: the X-drive controller (XDrive), its three    *)
(* driving modes, and the teleoperated control loop (Robot.control_loop)   *)
(* with the launcher (ObjectSlinger) and the wing (Wing).                  *)
(*                                                                         *)
(* Numbers the code computes in floating point are modelled as exact       *)
(* rationals <<numerator, denominator>>.  A heading is a point <<c, s>> of *)
(* the circle c^2 + s^2 = HeadingScale^2, standing for the angle whose     *)
(* cosine is c/HeadingScale and whose sine is s/HeadingScale; rotated      *)
(* coordinates are kept multiplied by HeadingScale.                        *)
(***************************************************************************)
EXTENDS Integers, Sequences, FiniteSets, TLC

VARIABLES
    mode,       \* XDrive.mode
    motors,     \* the last command each of the four drive motors received
    axes,       \* the joystick positions (axis3, axis4, axis1) the last tick read
    heading,    \* the heading the last tick read from the imu, or "unread"
    strategy,   \* the strategy the last tick dispatched to
    drvCmd,     \* the drive-level command the last tick's strategy issued
    lastOp,     \* the last operation performed on the XDrive
    lastSet,    \* the argument of the latest set_mode (constructor mode if none)
    pc,         \* position of control_loop within its iteration
    speed,      \* ObjectSlinger.speed
    buttons,    \* what buttonL2 and buttonL1 read in the latest iteration
    slinger,    \* the last command the launcher motor received
    wing,       \* the number of running wing threads at each position
    wingMotor   \* the last command the wing motor received

driveVars == <<mode, motors, axes, heading, strategy, drvCmd, lastOp, lastSet>>
loopVars == <<pc, speed, buttons, slinger, wing, wingMotor>>
vars == <<mode, motors, axes, heading, strategy, drvCmd, lastOp, lastSet,
          pc, speed, buttons, slinger, wing, wingMotor>>

----------------------------------------------------------------------------
(* Bounds of the model *)

MaxAxis == 100
NearZone == 11
AxisStep == 10
HeadingScale == 5
MaxModeArg == 3
MaxWingThreads == 2

(* Program constants *)

SINGLE_MOVE == 0
FLUID == 1
FIELD_CENTRIC == 2
DEADZONE == 10
InitialSpeed == 100
SpeedStep == 10

XModes == {SINGLE_MOVE, FLUID, FIELD_CENTRIC}
ModeArgs == 0..MaxModeArg
Motors == 0..3

Abs(x) == IF x < 0 THEN -x ELSE x
Max(a, b) == IF a >= b THEN a ELSE b

(* Joystick positions the wide specification draws: every position near   *)
(* the dead zone and a grid over the rest of the range.                   *)
AxisValues ==
    {v \in -MaxAxis..MaxAxis : Abs(v) <= NearZone \/ Abs(v) % AxisStep = 0}
Samples(S) == [axis3 : S, axis4 : S, axis1 : S]
(* Joystick positions of the specifications that run histories.           *)
FewAxisValues == {-50, 0, 50}
LoopSamples == {a \in Samples({0, 50}) : a.axis4 = 0 /\ a.axis1 = 0}

Headings ==
    {h \in (-HeadingScale..HeadingScale) \X (-HeadingScale..HeadingScale) :
        h[1] * h[1] + h[2] * h[2] = HeadingScale * HeadingScale}
HeadingZero == <<HeadingScale, 0>>
(* math.cos(-heading) and math.sin(-heading), times HeadingScale *)
CosNeg(h) == h[1]
SinNeg(h) == -h[2]

Whole(v) == <<v, 1>>

----------------------------------------------------------------------------
(* XMotorGroup: commands to the four drive motors *)

Idle == [cmd |-> "none", dir |-> "-", speed |-> Whole(0), fresh |-> FALSE]
SpinCmd(direction, spd) ==
    [cmd |-> "spin", dir |-> direction, speed |-> spd, fresh |-> TRUE]
StopCmd == [cmd |-> "stop", dir |-> "BRAKE", speed |-> Whole(0), fresh |-> TRUE]

(* what a motor holds once a later tick has begun *)
Stale(ms) == [i \in Motors |-> [ms[i] EXCEPT !.fresh = FALSE]]

group_spin(ms, direction, spd) == [i \in Motors |-> SpinCmd(direction, spd)]
group_stop(ms) == [i \in Motors |-> StopCmd]
spin_some(ms, direction, spd, which) ==
    [i \in Motors |-> IF i \in which THEN SpinCmd(direction, spd) ELSE ms[i]]
spin_each(ms, p) == [i \in Motors |-> SpinCmd("FORWARD", p[i + 1])]

move_up(ms, spd) == group_spin(ms, "FORWARD", Whole(spd))
move_down(ms, spd) == group_spin(ms, "REVERSE", Whole(spd))
move_left(ms, spd) ==
    spin_some(spin_some(ms, "FORWARD", Whole(spd), {1, 2}), "REVERSE", Whole(spd), {0, 3})
move_right(ms, spd) ==
    spin_some(spin_some(ms, "REVERSE", Whole(spd), {1, 2}), "FORWARD", Whole(spd), {0, 3})
turn_right(ms, spd) ==
    spin_some(spin_some(ms, "FORWARD", Whole(spd), {0, 1}), "REVERSE", Whole(spd), {2, 3})
turn_left(ms, spd) ==
    spin_some(spin_some(ms, "REVERSE", Whole(spd), {0, 1}), "FORWARD", Whole(spd), {2, 3})

Out(ms, name, arg, h) == [motors |-> ms, cmd |-> [name |-> name, arg |-> arg], heading |-> h]

----------------------------------------------------------------------------
(* XDrive.move_single *)

(* variant: the strafe axis tested before the forward axis *)
move_single_strafe_first(ms, left_y, left_x, right_x) ==
    IF left_x > DEADZONE THEN Out(move_right(ms, left_x), "move_right", left_x, "unread")
    ELSE IF left_x < -DEADZONE
        THEN Out(move_left(ms, Abs(left_x)), "move_left", Abs(left_x), "unread")
    ELSE IF left_y > DEADZONE THEN Out(move_up(ms, left_y), "move_up", left_y, "unread")
    ELSE IF left_y < -DEADZONE
        THEN Out(move_down(ms, Abs(left_y)), "move_down", Abs(left_y), "unread")
    ELSE IF right_x > DEADZONE
        THEN Out(turn_right(ms, right_x), "turn_right", right_x, "unread")
    ELSE IF right_x < -DEADZONE
        THEN Out(turn_left(ms, Abs(right_x)), "turn_left", Abs(right_x), "unread")
    ELSE Out(group_stop(ms), "stop", 0, "unread")

move_single(ms, left_y, left_x, right_x) ==
    IF left_y > DEADZONE THEN Out(move_up(ms, left_y), "move_up", left_y, "unread")
    ELSE IF left_y < -DEADZONE
        THEN Out(move_down(ms, Abs(left_y)), "move_down", Abs(left_y), "unread")
    ELSE IF left_x > DEADZONE
        THEN Out(move_right(ms, left_x), "move_right", left_x, "unread")
    ELSE IF left_x < -DEADZONE
        THEN Out(move_left(ms, Abs(left_x)), "move_left", Abs(left_x), "unread")
    ELSE IF right_x > DEADZONE
        THEN Out(turn_right(ms, right_x), "turn_right", right_x, "unread")
    ELSE IF right_x < -DEADZONE
        THEN Out(turn_left(ms, Abs(right_x)), "turn_left", Abs(right_x), "unread")
    ELSE Out(group_stop(ms), "stop", 0, "unread")

----------------------------------------------------------------------------
(* XDrive.get_centric_power, for the heading h the imu reports *)

(* variant: sine and cosine exchanged in rotation_x *)
rotation_x_swapped(x, y, h) == x * SinNeg(h) - y * CosNeg(h)
rotation_x(x, y, h) == x * CosNeg(h) - y * SinNeg(h)
rotation_y(x, y, h) == x * SinNeg(h) + y * CosNeg(h)

(* variant: the absolute value of rotation_x forgotten *)
denominator_no_abs(x, y, rx, h) ==
    Max(Abs(rotation_y(x, y, h)) + rotation_x(x, y, h) + Abs(rx * HeadingScale),
        HeadingScale)

denominator(x, y, rx, h) ==
    Max(Abs(rotation_y(x, y, h)) + Abs(rotation_x(x, y, h)) + Abs(rx * HeadingScale),
        HeadingScale)

get_centric_power(x, y, rx, h) ==
    LET rox == rotation_x(x, y, h)
        roy == rotation_y(x, y, h)
        rot == rx * HeadingScale
        den == denominator(x, y, rx, h)
    IN  << <<roy + rox + rot, den>>,
           <<roy - rox + rot, den>>,
           <<roy - rox - rot, den>>,
           <<roy + rox - rot, den>> >>

----------------------------------------------------------------------------
(* XDrive.move_fluid *)

left_dead(left_y, left_x) ==
    left_y < DEADZONE /\ left_y > -DEADZONE /\ left_x < DEADZONE /\ left_x > -DEADZONE
(* variant: the second comparison of the rotate axis mistyped *)
right_dead_mistyped(right_x) == right_x < DEADZONE /\ right_x > DEADZONE
right_dead(right_x) == right_x < DEADZONE /\ right_x > -DEADZONE

(* variant: the strafe term of mr3 added instead of subtracted *)
fluid_sums_mr3_sign(left_y, left_x, right_x) ==
    LET r == IF right_x < DEADZONE /\ right_x > -DEADZONE THEN 0 ELSE right_x
        dead == left_y < DEADZONE /\ left_y > -DEADZONE
                /\ left_x < DEADZONE /\ left_x > -DEADZONE
        y == IF dead THEN 0 ELSE left_y
        x == IF dead THEN 0 ELSE left_x
    IN  <<r + y + x, r + y - x, (0 - r) + y + x, (0 - r) + y + x>>

(* variant: each sum clamped to the motor's range of -100..100 percent *)
fluid_sums_clamped(left_y, left_x, right_x) ==
    LET r == IF right_x < DEADZONE /\ right_x > -DEADZONE THEN 0 ELSE right_x
        dead == left_y < DEADZONE /\ left_y > -DEADZONE
                /\ left_x < DEADZONE /\ left_x > -DEADZONE
        y == IF dead THEN 0 ELSE left_y
        x == IF dead THEN 0 ELSE left_x
        clamp(v) == IF v > 100 THEN 100 ELSE IF v < -100 THEN -100 ELSE v
    IN  <<clamp(r + y + x), clamp(r + y - x),
          clamp((0 - r) + y - x), clamp((0 - r) + y + x)>>

(* mr1..mr4 as they stand before the test for all zero *)
fluid_sums(left_y, left_x, right_x) ==
    LET r == IF ~right_dead(right_x) THEN right_x ELSE 0
        y == IF ~left_dead(left_y, left_x) THEN left_y ELSE 0
        x == IF ~left_dead(left_y, left_x) THEN left_x ELSE 0
    IN  <<r + y + x, r + y - x, (0 - r) + y - x, (0 - r) + y + x>>

(* variant: the test for all zero looks at mr1 and mr2 only *)
move_fluid_partial_test(ms, md, left_y, left_x, right_x, h) ==
    LET mr == fluid_sums(left_y, left_x, right_x) IN
    IF mr[1] = 0 /\ mr[2] = 0
    THEN Out(group_stop(ms), "stop", 0, "unread")
    ELSE IF md = FIELD_CENTRIC
        THEN Out(spin_each(ms, get_centric_power(left_x, left_y, right_x, h)),
                 "spin", 0, h)
        ELSE Out(spin_each(ms, <<Whole(mr[1]), Whole(mr[2]), Whole(mr[3]), Whole(mr[4])>>),
                 "spin", 0, "unread")

move_fluid(ms, md, left_y, left_x, right_x, h) ==
    LET mr == fluid_sums(left_y, left_x, right_x) IN
    IF mr[1] = 0 /\ mr[2] = 0 /\ mr[3] = 0 /\ mr[4] = 0
    THEN Out(group_stop(ms), "stop", 0, "unread")
    ELSE IF md = FIELD_CENTRIC
        THEN Out(spin_each(ms, get_centric_power(left_x, left_y, right_x, h)),
                 "spin", 0, h)
        ELSE Out(spin_each(ms, <<Whole(mr[1]), Whole(mr[2]), Whole(mr[3]), Whole(mr[4])>>),
                 "spin", 0, "unread")

(* XDrive.move_centric *)
move_centric(ms, left_y, left_x, right_x, h) ==
    Out(spin_each(ms, get_centric_power(left_x, left_y, right_x, h)), "spin", 0, h)

----------------------------------------------------------------------------
(* XDrive.process_input: the branch the mode selects *)

(* variant: the FLUID and SINGLE_MOVE branches exchanged *)
dispatch_exchanged(md) ==
    IF md = FLUID THEN "move_single"
    ELSE IF md = FIELD_CENTRIC THEN "move_centric"
    ELSE IF md = SINGLE_MOVE THEN "move_fluid"
    ELSE "none"

(* variant: FIELD_CENTRIC handled inside move_fluid, with no branch of its own *)
dispatch_centric_in_fluid(md) ==
    IF md = FLUID \/ md = FIELD_CENTRIC THEN "move_fluid"
    ELSE IF md = SINGLE_MOVE THEN "move_single"
    ELSE "none"

dispatch(md) ==
    IF md = FLUID THEN "move_fluid"
    ELSE IF md = FIELD_CENTRIC THEN "move_centric"
    ELSE IF md = SINGLE_MOVE THEN "move_single"
    ELSE "none"

tick(ms, md, left_y, left_x, right_x, h) ==
    LET s == dispatch(md) IN
    IF s = "move_fluid" THEN move_fluid(ms, md, left_y, left_x, right_x, h)
    ELSE IF s = "move_centric" THEN move_centric(ms, left_y, left_x, right_x, h)
    ELSE IF s = "move_single" THEN move_single(ms, left_y, left_x, right_x)
    ELSE Out(ms, "none", 0, "unread")

(* the effect of one process_input on the drive's variables, the sticks *)
(* being at one of the positions S                                      *)
DriveTick(S) ==
    \E a \in S :
        \E h \in IF tick(motors, mode, a.axis3, a.axis4, a.axis1, HeadingZero).heading
                        = "unread"
                 THEN {HeadingZero}      \* the imu is not consulted
                 ELSE Headings :
            \E out \in {tick(Stale(motors), mode, a.axis3, a.axis4, a.axis1, h)} :
                /\ axes' = a
                /\ motors' = out.motors
                /\ drvCmd' = out.cmd
                /\ heading' = out.heading
                /\ strategy' = dispatch(mode)
                /\ lastOp' = "process_input"
                /\ UNCHANGED <<mode, lastSet>>

process_input(S) ==
    /\ DriveTick(S)
    /\ UNCHANGED loopVars

(* XDrive.set_mode *)
set_mode(m) ==
    /\ mode' = m
    /\ lastSet' = m
    /\ lastOp' = "set_mode"
    /\ UNCHANGED <<motors, axes, heading, strategy, drvCmd>>
    /\ UNCHANGED loopVars

----------------------------------------------------------------------------
(* Wing.out and Wing.in_: each call starts a thread (threaded, Thread)   *)

WingAt == {"out.start", "out.moving", "in.start", "in.moving", "in.nudging"}
Running == wing["out.start"] + wing["out.moving"] + wing["in.start"]
           + wing["in.moving"] + wing["in.nudging"]
Move(w, from, to) == [w EXCEPT ![from] = @ - 1, ![to] = @ + 1]
Start(w, at) == [w EXCEPT ![at] = @ + 1]
End(w, at) == [w EXCEPT ![at] = @ - 1]

(* one step of one wing thread: a motor command, or the end of a motion *)
WingStep ==
    /\ \/ /\ wing["out.start"] > 0          \* spin_to_position(90, ...) begins
          /\ wing' = Move(wing, "out.start", "out.moving")
          /\ wingMotor' = "to90"
       \/ /\ wing["out.moving"] > 0         \* ... ends; stop(HOLD); the thread ends
          /\ wing' = End(wing, "out.moving")
          /\ wingMotor' = "hold"
       \/ /\ wing["in.start"] > 0           \* spin_to_position(0, ...) begins
          /\ wing' = Move(wing, "in.start", "in.moving")
          /\ wingMotor' = "to0"
       \/ /\ wing["in.moving"] > 0          \* ... ends; spin_for(REVERSE, 1) begins
          /\ wing' = Move(wing, "in.moving", "in.nudging")
          /\ wingMotor' = "reverse1"
       \/ /\ wing["in.nudging"] > 0         \* ... ends; stop(HOLD); the thread ends
          /\ wing' = End(wing, "in.nudging")
          /\ wingMotor' = "hold"
    /\ UNCHANGED <<pc, speed, buttons, slinger>>
    /\ UNCHANGED driveVars

----------------------------------------------------------------------------
(* Robot.control_loop.  One iteration runs from "top" to the next "top";  *)
(* it is cut where a call of the loop's own thread waits for the launcher *)
(* motor: spin_to_position returns when the motor has arrived.            *)

Waiting == {"set_B", "launch_back", "launch_forward", "set_Y"}

(* variant: the launcher speed lowered without the test speed >= 10 *)
next_speed_no_floor(sp, L2, L1) ==
    IF L2 THEN (IF sp <= 90 THEN sp + SpeedStep ELSE sp)
    ELSE IF L1 THEN sp - SpeedStep
    ELSE sp

(* lines 385-391: buttonL2 raises the launcher speed, else buttonL1 lowers it *)
next_speed(sp, L2, L1) ==
    IF L2 THEN (IF sp <= 90 THEN sp + SpeedStep ELSE sp)
    ELSE IF L1 THEN (IF sp >= 10 THEN sp - SpeedStep ELSE sp)
    ELSE sp

(* lines 385-404: launcher speed, wing, screen, process_input, sleep *)
Rest(sl) ==
    /\ slinger' = sl
    /\ \E L2 \in BOOLEAN, L1 \in BOOLEAN :
        /\ buttons' = [L2 |-> L2, L1 |-> L1]
        /\ speed' = next_speed(speed, L2, L1)
    /\ wing' \in
        {IF b[1] THEN Start(wing, "out.start")
         ELSE IF b[2] THEN Start(wing, "in.start")
         ELSE wing :
            b \in {p \in BOOLEAN \X BOOLEAN :       \* <<Right, Down>>
                      (p[1] \/ p[2]) => Running < MaxWingThreads}}
    /\ UNCHANGED wingMotor
    /\ DriveTick(LoopSamples)
    /\ pc' = "top"

(* lines 381-383, then the rest: buttonY starts a launch, which waits *)
FromY(sl) ==
    \/ /\ slinger' = "to30"
       /\ pc' = "launch_back"
       /\ UNCHANGED <<speed, buttons, wing, wingMotor>>
       /\ UNCHANGED driveVars
    \/ Rest(sl)

(* lines 369-379, then the rest: buttonB sets the launcher, which waits *)
LoopTop ==
    /\ pc = "top"
    /\ \E sl \in {IF R1 THEN "run_reverse"
                  ELSE IF R2 /\ below150 THEN "run_forward"
                  ELSE "hold" : R1 \in BOOLEAN, R2 \in BOOLEAN, below150 \in BOOLEAN} :
            \/ /\ slinger' = "to90"
               /\ pc' = "set_B"
               /\ UNCHANGED <<speed, buttons, wing, wingMotor>>
               /\ UNCHANGED driveVars
            \/ FromY(sl)

(* the launcher motor arrives and the waiting call returns *)
MotionDone ==
    \/ /\ pc = "set_B"
       /\ FromY(slinger)
    \/ /\ pc = "launch_back"                \* wait(1); spin_to_position(180, ...)
       /\ slinger' = "to180"
       /\ pc' = "launch_forward"
       /\ UNCHANGED <<speed, buttons, wing, wingMotor>>
       /\ UNCHANGED driveVars
    \/ /\ pc = "launch_forward"             \* launch returns; set() begins
       /\ slinger' = "to90"
       /\ pc' = "set_Y"
       /\ UNCHANGED <<speed, buttons, wing, wingMotor>>
       /\ UNCHANGED driveVars
    \/ /\ pc = "set_Y"
       /\ Rest(slinger)

----------------------------------------------------------------------------
(* Construction: XDrive.__init__, ObjectSlinger.__init__, Wing.__init__,   *)
(* Robot.__init__                                                          *)

InitDrive(md) ==
    /\ mode = md
    /\ lastSet = md
    /\ motors = [i \in Motors |-> Idle]
    /\ axes = [axis3 |-> 0, axis4 |-> 0, axis1 |-> 0]
    /\ heading = "unread"
    /\ strategy = "none"
    /\ drvCmd = [name |-> "none", arg |-> 0]
    /\ lastOp = "init"

InitLoop ==
    /\ pc = "top"
    /\ speed = InitialSpeed
    /\ buttons = [L2 |-> FALSE, L1 |-> FALSE]
    /\ slinger = "none"
    /\ wing = [at \in WingAt |-> 0]
    /\ wingMotor = "none"

(* An XDrive driven through its interface: any mode set, any ticks. *)
Init == InitDrive(FLUID) /\ InitLoop
Next ==
    \/ \E m \in ModeArgs : set_mode(m)
    \/ process_input(Samples(FewAxisValues))
Spec == Init /\ [][Next]_vars

(* One tick of each mode of the enumeration on every sample of the wide set. *)
InitKin == (\E md \in XModes : InitDrive(md)) /\ InitLoop
NextKin == lastOp = "init" /\ process_input(Samples(AxisValues))
SpecKin == InitKin /\ [][NextKin]_vars

(* The robot as main.py builds and runs it: control_loop and the wing threads. *)
NextLoop ==
    \/ LoopTop
    \/ MotionDone
    \/ WingStep
SpecLoop == Init /\ [][NextLoop]_vars

----------------------------------------------------------------------------
(* Properties *)

Ticked(md) == lastOp = "process_input" /\ mode = md
forward == axes.axis3
strafe == axes.axis4
rotate == axes.axis1
AllStopped == \A i \in Motors : motors[i] = StopCmd
Spinning(p) == \A i \in Motors : motors[i] = SpinCmd("FORWARD", Whole(p[i + 1]))

(* C1: after a FLUID tick or a SINGLE_MOVE tick on a sample whose three   *)
(* magnitudes are all below the dead-zone threshold, the one command      *)
(* issued is stop and all four motors hold the stop command.              *)
C1_DeadSampleStops ==
    ((Ticked(FLUID) \/ Ticked(SINGLE_MOVE))
        /\ Abs(forward) < DEADZONE /\ Abs(strafe) < DEADZONE /\ Abs(rotate) < DEADZONE)
    => (drvCmd.name = "stop" /\ AllStopped)

C1_Witness ==
    /\ Ticked(FLUID)
    /\ forward = 9 /\ strafe = -9 /\ rotate = 9
    /\ drvCmd.name = "stop" /\ AllStopped

(* C2: after a FLUID tick the wheels FL, BL, FR, BR are commanded FORWARD *)
(* at R+F+S, R+F-S, -R+F-S, -R+F+S, where R is rotate unless the rotate   *)
(* axis is dead and F, S are forward and strafe unless both are dead;     *)
(* when these four are all zero the tick commands stop instead.           *)
C2_Expected ==
    LET R == IF Abs(rotate) >= DEADZONE THEN rotate ELSE 0
        live == Abs(forward) >= DEADZONE \/ Abs(strafe) >= DEADZONE
        F == IF live THEN forward ELSE 0
        S == IF live THEN strafe ELSE 0
    IN  <<R + F + S, R + F - S, (0 - R) + F - S, (0 - R) + F + S>>

C2_FluidPowers ==
    Ticked(FLUID) =>
        IF C2_Expected = <<0, 0, 0, 0>> THEN AllStopped ELSE Spinning(C2_Expected)

C2_Witness ==
    /\ Ticked(FLUID)
    /\ forward = 0 /\ strafe = 0 /\ rotate = 40
    /\ Spinning(<<40, 40, -40, -40>>)

(* C3: after a SINGLE_MOVE tick exactly one command has been issued: the  *)
(* first of forward, backward, strafe-right, strafe-left, rotate-right,   *)
(* rotate-left whose axis exceeds the threshold in its sign, at the       *)
(* absolute value of that axis, or stop when none does; the four motors   *)
(* hold that direction's commands at that magnitude.                      *)
C3_Choice ==
    IF forward > DEADZONE THEN <<"move_up", forward>>
    ELSE IF forward < -DEADZONE THEN <<"move_down", Abs(forward)>>
    ELSE IF strafe > DEADZONE THEN <<"move_right", strafe>>
    ELSE IF strafe < -DEADZONE THEN <<"move_left", Abs(strafe)>>
    ELSE IF rotate > DEADZONE THEN <<"turn_right", rotate>>
    ELSE IF rotate < -DEADZONE THEN <<"turn_left", Abs(rotate)>>
    ELSE <<"stop", 0>>

(* the motors that run FORWARD in each direction; the others run REVERSE *)
C3_ForwardSide(name) ==
    IF name = "move_up" THEN {0, 1, 2, 3}
    ELSE IF name = "move_down" THEN {}
    ELSE IF name = "move_right" THEN {0, 3}
    ELSE IF name = "move_left" THEN {1, 2}
    ELSE IF name = "turn_right" THEN {0, 1}
    ELSE {2, 3}

C3_SingleDirection ==
    Ticked(SINGLE_MOVE) =>
        /\ drvCmd = [name |-> C3_Choice[1], arg |-> C3_Choice[2]]
        /\ IF C3_Choice[1] = "stop" THEN AllStopped
           ELSE \A i \in Motors :
                    motors[i] = SpinCmd(IF i \in C3_ForwardSide(C3_Choice[1])
                                            THEN "FORWARD" ELSE "REVERSE",
                                        Whole(C3_Choice[2]))

C3_Witness ==
    /\ Ticked(SINGLE_MOVE)
    /\ forward = 50 /\ strafe = 80 /\ rotate = 0
    /\ drvCmd = [name |-> "move_up", arg |-> 50]
    /\ \A i \in Motors : motors[i] = SpinCmd("FORWARD", Whole(50))

(* C4: for the sample and the heading of a FIELD_CENTRIC tick, the        *)
(* denominator of get_centric_power is at least 1 and at least the        *)
(* magnitude of each numerator, so each of the four powers is in [-1, 1]. *)
C4_PowersNormalized ==
    Ticked(FIELD_CENTRIC) =>
        LET p == get_centric_power(strafe, forward, rotate, heading) IN
        \A i \in 1..4 :
            /\ p[i][2] = denominator(strafe, forward, rotate, heading)
            /\ p[i][2] >= HeadingScale
            /\ Abs(p[i][1]) <= p[i][2]

C4_Witness ==
    /\ Ticked(FIELD_CENTRIC)
    /\ heading \in Headings /\ heading[1] # 0 /\ heading[2] # 0
    /\ forward = 100 /\ strafe = -100 /\ rotate = 100
    /\ \A i \in Motors : Abs(motors[i].speed[1]) <= motors[i].speed[2]

(* C5: a tick dispatches to the strategy of the value the latest set_mode *)
(* gave (the constructor's mode if there was none), and set_mode leaves   *)
(* the motors' commands and the record of the completed tick as they are. *)
C5_StrategyOf(m) ==
    IF m = SINGLE_MOVE THEN "move_single"
    ELSE IF m = FLUID THEN "move_fluid"
    ELSE IF m = FIELD_CENTRIC THEN "move_centric"
    ELSE "none"

C5_ModeSwitchNextTick ==
    [][/\ lastOp' = "process_input" => strategy' = C5_StrategyOf(lastSet')
       /\ lastOp' = "set_mode" =>
            /\ motors' = motors
            /\ strategy' = strategy
            /\ drvCmd' = drvCmd
            /\ axes' = axes
            /\ heading' = heading]_vars

C5_Witness ==
    /\ lastOp = "process_input"
    /\ lastSet = SINGLE_MOVE
    /\ strategy = "move_single"
    /\ drvCmd.name = "move_up"

(* C6: after a tick, what each motor is commanded is what the same tick   *)
(* (same mode, sample and heading) commands on a drive with no history.   *)
Commanded(ms) == [i \in Motors |-> [cmd |-> ms[i].cmd, dir |-> ms[i].dir,
                                    speed |-> ms[i].speed]]

C6_TickIndependentOfHistory ==
    lastOp = "process_input" =>
        Commanded(motors) =
            Commanded(tick([i \in Motors |-> Idle], mode, forward, strafe, rotate,
                           IF heading = "unread" THEN HeadingZero ELSE heading).motors)

(* C7: the mode is one of SINGLE_MOVE, FLUID, FIELD_CENTRIC, whatever     *)
(* values set_mode has been called with.                                  *)
C7_ModeInEnum == mode \in XModes

(* C8 as stated: at heading 0 the four powers of a FIELD_CENTRIC tick are *)
(* the four FLUID sums of the same sample, each divided by                *)
(* max(|forward| + |strafe| + |rotate|, 1).                               *)
RatEq(p, q) == p[1] * q[2] = q[1] * p[2]
C8_Norm == Max(Abs(forward) + Abs(strafe) + Abs(rotate), 1)
C8_Agree ==
    \A i \in Motors :
        /\ motors[i].cmd = "spin" /\ motors[i].dir = "FORWARD"
        /\ RatEq(motors[i].speed, <<fluid_sums(forward, strafe, rotate)[i + 1], C8_Norm>>)

C8_CentricIsNormalizedFluid ==
    (Ticked(FIELD_CENTRIC) /\ heading = HeadingZero) => C8_Agree

(* C8 amended: the same, for the samples of which FLUID's dead zone       *)
(* removes nothing: rotate is 0 or not dead, and forward and strafe are   *)
(* both 0 or translation is not dead.                                     *)
C8_NothingSuppressed ==
    /\ rotate = 0 \/ Abs(rotate) >= DEADZONE
    /\ (forward = 0 /\ strafe = 0) \/ Abs(forward) >= DEADZONE \/ Abs(strafe) >= DEADZONE

C8_CentricIsNormalizedFluidOutsideDeadZone ==
    (Ticked(FIELD_CENTRIC) /\ heading = HeadingZero /\ C8_NothingSuppressed) => C8_Agree

C8_Witness ==
    /\ Ticked(FIELD_CENTRIC) /\ heading = HeadingZero
    /\ forward = 50 /\ strafe = -20 /\ rotate = 30
    /\ C8_Agree

(* C9 as stated: for a FLUID tick on (f, s, r) with (2f, 2s, 2r) in range *)
(* each wheel sum of (2f, 2s, 2r) is twice the wheel sum of the tick.     *)
C9_InRange(v) == -MaxAxis <= 2 * v /\ 2 * v <= MaxAxis
C9_TickSum(i) == IF motors[i].cmd = "spin" THEN motors[i].speed[1] ELSE 0
C9_Doubles ==
    \A i \in Motors :
        fluid_sums(2 * forward, 2 * strafe, 2 * rotate)[i + 1] = 2 * C9_TickSum(i)

C9_FluidLinear ==
    (Ticked(FLUID) /\ C9_InRange(forward) /\ C9_InRange(strafe) /\ C9_InRange(rotate))
    => C9_Doubles

(* C9 amended: the same, for the samples whose doubling does not take an  *)
(* axis out of the dead zone: rotate dead implies 2*rotate dead, and      *)
(* translation dead implies the doubled translation dead.                 *)
C9_DeadZoneKept ==
    /\ Abs(rotate) < DEADZONE => Abs(2 * rotate) < DEADZONE
    /\ (Abs(forward) < DEADZONE /\ Abs(strafe) < DEADZONE)
        => (Abs(2 * forward) < DEADZONE /\ Abs(2 * strafe) < DEADZONE)

C9_FluidLinearOutsideDeadZone ==
    (Ticked(FLUID) /\ C9_InRange(forward) /\ C9_InRange(strafe) /\ C9_InRange(rotate)
        /\ C9_DeadZoneKept)
    => C9_Doubles

C9_Witness ==
    /\ Ticked(FLUID)
    /\ forward = 20 /\ strafe = -10 /\ rotate = 50
    /\ Spinning(<<60, 80, -20, -40>>)
    /\ C9_Doubles

(* C10: control_loop is never waiting for a motion of the launcher or of  *)
(* the wing to complete.                                                  *)
C10_LoopNeverWaits == pc \notin Waiting

(* C11: a tick reads the imu heading (which only get_centric_power does)  *)
(* exactly when the mode is FIELD_CENTRIC, and it is then move_centric    *)
(* that ran; a FLUID tick commands stop or the four raw sums, never the   *)
(* field-centric powers.                                                  *)
C11_CentricOnlyInCentricMode ==
    lastOp = "process_input" =>
        /\ (heading # "unread") <=> (mode = FIELD_CENTRIC)
        /\ (strategy = "move_centric") <=> (mode = FIELD_CENTRIC)
        /\ mode = FLUID =>
            \/ AllStopped
            \/ Spinning(fluid_sums(forward, strafe, rotate))

C11_Witness ==
    /\ Ticked(FIELD_CENTRIC)
    /\ heading \in Headings
    /\ strategy = "move_centric"
    /\ forward = 0 /\ strafe = 0 /\ rotate = 0
    /\ drvCmd.name = "spin"

(* C12: after a FIELD_CENTRIC tick the speed each motor was given is 100  *)
(* times the power get_centric_power returned for it.                     *)
C12_CentricScaledToPercent ==
    Ticked(FIELD_CENTRIC) =>
        LET p == get_centric_power(strafe, forward, rotate, heading) IN
        \A i \in Motors :
            /\ motors[i].cmd = "spin" /\ motors[i].dir = "FORWARD"
            /\ RatEq(motors[i].speed, <<100 * p[i + 1][1], p[i + 1][2]>>)

(* C13: a SINGLE_MOVE tick commands stop exactly when a FLUID tick on the *)
(* same sample commands stop.                                             *)
C13_OtherStops(md) ==
    tick([i \in Motors |-> Idle], md, forward, strafe, rotate, HeadingZero).cmd.name
        = "stop"

C13_SameDeadZone ==
    /\ Ticked(SINGLE_MOVE) => (AllStopped <=> C13_OtherStops(FLUID))
    /\ Ticked(FLUID) => (AllStopped <=> C13_OtherStops(SINGLE_MOVE))

(* C14: a FLUID tick commands stop exactly when the rotate axis is dead   *)
(* and the forward and strafe axes are both dead; on every other sample   *)
(* it commands four spins.                                                *)
C14_AllDead ==
    Abs(rotate) < DEADZONE /\ Abs(forward) < DEADZONE /\ Abs(strafe) < DEADZONE

C14_FluidStopsOnlyWhenDead ==
    Ticked(FLUID) =>
        /\ C14_AllDead <=> (drvCmd.name = "stop" /\ AllStopped)
        /\ ~C14_AllDead =>
            (drvCmd.name = "spin" /\ \A i \in Motors : motors[i].cmd = "spin")

C14_Witness ==
    /\ Ticked(FLUID)
    /\ forward = 10 /\ strafe = 0 /\ rotate = -10
    /\ Spinning(<<0, 0, 20, 20>>)

(* C15: the launcher speed is always a multiple of 10 within 0..100; it   *)
(* changes only at the end of an iteration of control_loop: up by 10      *)
(* exactly when buttonL2 is pressed and the speed is <= 90, down by 10    *)
(* exactly when buttonL1 is pressed, buttonL2 is not and the speed is     *)
(* >= 10.                                                                 *)
C15_Levels == {n * 10 : n \in 0..10}

C15_SpeedInSteps ==
    [][/\ speed \in C15_Levels /\ speed' \in C15_Levels
       /\ speed' # speed => (pc' = "top" /\ lastOp' = "process_input")
       /\ speed' > speed => (buttons'.L2 /\ speed <= 90 /\ speed' = speed + 10)
       /\ speed' < speed =>
            (buttons'.L1 /\ ~buttons'.L2 /\ speed >= 10 /\ speed' = speed - 10)
       /\ (buttons' # buttons /\ buttons'.L2 /\ speed <= 90) => speed' = speed + 10
       /\ (buttons' # buttons /\ buttons'.L1 /\ ~buttons'.L2 /\ speed >= 10)
            => speed' = speed - 10]_vars

C15_Witness ==
    /\ speed = 0
    /\ buttons = [L2 |-> FALSE, L1 |-> TRUE]
    /\ pc = "top"

(* C16: at most one wing thread (Wing.out or Wing.in_) is running.        *)
C16_OneWingMotion == Running <= 1

====
